---- MODULE Spec2Model ----
(***************************************************************************)
(* Request admission / authorization core of hono-starter:                 *)
(*   - the sliding-window rate limiter (rateLimiter) over a Redis sorted   *)
(*     set with a hard key expiry,                                         *)
(*   - the process-wide Redis client (initRedis / getRedis / closeRedis),  *)
(*   - the gate chain of a protected route: authMiddleware, one of the     *)
(*     require* role/permission stages, and the protected handler.         *)
(* Time is in milliseconds, windowInSeconds in seconds, as in the source.  *)
(***************************************************************************)
EXTENDS Integers, Sequences, FiniteSets, TLC

\* ------------------------------------------------------------------ bounds
NumProcs == 2        \* request tasks that can be in flight
MaxMax == 2          \* largest configured `max`
MaxWindowSec == 1    \* largest configured windowInSeconds
TickMs == 250        \* granularity of the clock
MaxClock == 1250     \* the clock stops advancing here
MaxRequests == 4     \* requests started in one behaviour, run one at a time
MaxRequestsConc == 3 \* requests started in one behaviour, run concurrently
MaxRequestsKeys == 3 \* requests started in one behaviour, by several callers
MaxFaults == 1       \* store commands that error in one behaviour
NumAdmins == 2       \* administration calls that can be in flight
MaxAdminOps == 3     \* administration calls started in one behaviour

\* ------------------------------------------------------- program constants
MsPerSec == 1000
TOO_MANY_REQUESTS == 429
INTERNAL_SERVER_ERROR == 500
OK == 200

Procs == 1..NumProcs

VARIABLES
    clock,        \* Date.now() / the Redis server's time, in ms
    redisClient,  \* module-level `redisClient` of the Redis module
    zset,         \* members of the sorted set stored under the key
    ttl,          \* expiry of the key: [set |-> BOOLEAN, at |-> ms]
    max,          \* option `max` of the limiter
    windowInSeconds, \* option `windowInSeconds` of the limiter
    k,            \* how many requests the host runs at the same time
    proc,         \* per task: position in rateLimiter and its locals
    arr,          \* history: arrival time (now) of request 1, 2, ...
    adm,          \* history: requests for which next() was called
    faults,       \* history: store commands that errored
    raced,        \* history: a count was read while another task sat
                  \*          between its own count and its insert
    clients,      \* the header sets requests on the limited routes carry
    via,          \* history: the headers of request 1, 2, ...
    others,       \* the sorted sets and expiries stored under the other keys
    env,          \* JWT_SECRET and REFRESH_TOKEN_SECRET of the environment
    db,           \* relational store: users, user_roles, role_permissions,
                  \*                   user_permissions
    req,          \* the request in the gate chain: input, position, response
    admin,        \* per administration task: the service call it runs,
                  \*   its position and its outcome
    hist,         \* history: administration calls started; (user, role)
                  \*   pairs revoked and not assigned again since; requests
                  \*   handed downstream by the limiter; keys computed by
                  \*   rateLimiterByUser
    rf            \* the call of POST /api/v1/auth/refresh being served

keyVars == <<clients, via, others>>

limVars == <<redisClient, zset, ttl, max, windowInSeconds, k, proc,
             arr, adm, faults, raced, keyVars>>

gateVars == <<env, db, req>>

auxVars == <<admin, hist, rf>>

vars == <<clock, limVars, gateVars, auxVars>>

\* -------------------------------------------------------------- the store
NoTtl == [set |-> FALSE, at |-> 0]

\* Redis never shows a key whose expiry has passed (now > when).
KeyExpired(t, now) == t.set /\ now > t.at

LiveSet(z, t, now) == IF KeyExpired(t, now) THEN {} ELSE z

\* A key holding an empty sorted set does not exist and has no expiry.
LiveTtl(z, t, now) == IF KeyExpired(t, now) \/ z = {} THEN NoTtl ELSE t

\* Mutant: the upper end of the range is exclusive.
ZRemRangeByScoreExclusive(z, lo, hi) == {e \in z : ~(lo <= e.score /\ e.score < hi)}

\* Mutant: the lower end of the range is exclusive.
ZRemRangeByScoreAboveMin(z, lo, hi) == {e \in z : ~(lo < e.score /\ e.score <= hi)}

\* Mutant: the prune is skipped.
ZRemRangeByScoreSkipped(z, lo, hi) == z

\* redis.zRemRangeByScore(key, 0, windowStart): both ends inclusive.
ZRemRangeByScore(z, lo, hi) == {e \in z : ~(lo <= e.score /\ e.score <= hi)}

\* redis.zCard(key)
ZCard(z) == Cardinality(z)

\* redis.zAdd(key, {score, value}); the value is `${now}-${Math.random()}`
ZAdd(z, score, nonce) == z \cup {[score |-> score, id |-> nonce]}

\* redis.expire(key, seconds): no effect on a key that does not exist.
Expire(z, t, now, seconds) ==
    IF z = {} THEN NoTtl ELSE [set |-> TRUE, at |-> now + seconds * MsPerSec]

\* --------------------------------------------------------- the bucket key
Addrs == {"a", "b"}

\* A header is absent (c.req.header gives undefined) or carries a string.
\* x-forwarded-for is kept as its comma-separated pieces, each with or
\* without blanks around its text; x-real-ip is kept whole.
NoForwarded == [present |-> FALSE, parts |-> <<>>]

Forwarded(parts) == [present |-> TRUE, parts |-> parts]

Piece(text, blanks) == [text |-> text, blanks |-> blanks]

NoRealIp == [present |-> FALSE, value |-> ""]

RealIp(value) == [present |-> TRUE, value |-> value]

NoHeaders == [forwarded |-> NoForwarded, realIp |-> NoRealIp]

\* The header sets the model sends: none; x-real-ip alone; both headers; a
\* padded list of two addresses; an empty x-forwarded-for next to an
\* x-real-ip; both headers empty.
HeaderSets ==
    {NoHeaders,
     [forwarded |-> NoForwarded, realIp |-> RealIp("a")],
     [forwarded |-> Forwarded(<<Piece("a", FALSE)>>), realIp |-> RealIp("b")],
     [forwarded |-> Forwarded(<<Piece("b", TRUE), Piece("a", TRUE)>>), realIp |-> NoRealIp],
     [forwarded |-> Forwarded(<<Piece("", FALSE)>>), realIp |-> RealIp("b")],
     [forwarded |-> Forwarded(<<Piece("", FALSE)>>), realIp |-> RealIp("")]}

\* `forwarded ? ... : ...`: undefined and the empty string are falsy.
ForwardedTruthy(f) == f.present /\ f.parts # <<Piece("", FALSE)>>

\* forwarded.split(",")[0].trim()
FirstForwarded(f) == f.parts[1].text

\* c.req.header("x-real-ip") || "unknown"
RealIpOrUnknown(r) == IF r.present /\ r.value # "" THEN r.value ELSE "unknown"

\* const ip = forwarded ? forwarded.split(",")[0].trim()
\*                       : c.req.header("x-real-ip") || "unknown"
CallerIp(h) ==
    IF ForwardedTruthy(h.forwarded) THEN FirstForwarded(h.forwarded)
    ELSE RealIpOrUnknown(h.realIp)

\* Mutant: every caller is counted in the one bucket of the sentinel.
DefaultKeyGeneratorShared(ip) == <<"rate-limit", "unknown">>

\* defaultKeyGenerator: `rate-limit:${ip}`
DefaultKeyGenerator(ip) == <<"rate-limit", ip>>

\* const key = keyGenerator(c)
KeyOf(h) == DefaultKeyGenerator(CallerIp(h))

\* The key whose sorted set and expiry are `zset` and `ttl`.
UnknownKey == KeyOf(NoHeaders)

Keys == {KeyOf(h) : h \in HeaderSets}

NoBucket == [z |-> {}, t |-> NoTtl]

\* What the store holds under a key.
Bucket(key) == IF key = UnknownKey THEN [z |-> zset, t |-> ttl] ELSE others[key]

\* A command of the limiter writes under its own key and no other.
Store(key, z, t) ==
    IF key = UnknownKey
    THEN zset' = z /\ ttl' = t /\ others' = others
    ELSE /\ others' = [others EXCEPT ![key] = [z |-> z, t |-> t]]
         /\ zset' = zset /\ ttl' = ttl

KeysAtRest ==
    /\ via = <<>>
    /\ others = [key \in Keys \ {UnknownKey} |-> NoBucket]

\* ------------------------------------------------------------ the limiter
CeilDiv(a, b) == (a + b - 1) \div b

Max0(a) == IF a > 0 THEN a ELSE 0

WindowMs == windowInSeconds * MsPerSec

\* const windowStart = now - windowInSeconds * 1000
WindowStart(now) == now - WindowMs

\* Mutant: the limit check is off by one and denies the max-th request.
LimitExceededEarly(requestCount, limit) == requestCount + 1 >= limit

\* Mutant: the limit check admits one request more than max.
LimitExceededLate(requestCount, limit) == requestCount > limit

\* if (requestCount >= max)
LimitExceeded(requestCount, limit) == requestCount >= limit

\* Math.max(0, max - requestCount - 1)
Remaining(limit, requestCount) == Max0(limit - requestCount - 1)

\* getRedis(): throws unless the module holds a client.
GetRedisThrows == redisClient \in {"null", "closed"}

Idle ==
    [pc |-> "idle", rid |-> 0, key |-> UnknownKey, now |-> 0, cnt |-> 0,
     hdr |-> FALSE, limit |-> 0, remaining |-> 0, reset |-> 0,
     retrySet |-> FALSE, retry |-> 0,
     status |-> 0, next |-> FALSE, err |-> FALSE, threw |-> FALSE, ovl |-> FALSE]

InFlight(p) == proc[p].pc \in {"prune", "count", "add", "expire"}

NumInFlight == Cardinality({p \in Procs : InFlight(p)})

\* catch (error) { console.error(...); return next(); }
FailOpen(p) ==
    /\ proc' = [proc EXCEPT ![p].pc = "done", ![p].next = TRUE,
                            ![p].status = OK, ![p].err = TRUE]
    /\ adm' = adm \cup {proc[p].rid}

\* A store command of task p errors: the server is unreachable, or the
\* client this task holds is not (or no longer) connected.
CanFail == redisClient # "ready" \/ faults < MaxFaults

RequestCap ==
    IF clients # {NoHeaders} THEN MaxRequestsKeys
    ELSE IF k = 1 THEN MaxRequests ELSE MaxRequestsConc

StoreError(p) ==
    /\ InFlight(p)
    /\ CanFail
    /\ faults' = IF faults < MaxFaults THEN faults + 1 ELSE faults
    /\ FailOpen(p)
    /\ UNCHANGED <<clock, redisClient, zset, ttl, max, windowInSeconds, k, arr, raced, keyVars, gateVars, auxVars>>

\* Entry of the middleware up to the first await.
Start(p) ==
    /\ proc[p].pc \in {"idle", "done"}
    /\ \A q \in Procs : q < p => InFlight(q)   \* the first free task takes it
    /\ NumInFlight < k
    /\ Len(arr) < RequestCap
    /\ arr' = Append(arr, clock)
    /\ \E h \in clients :
        /\ via' = Append(via, h)
        /\ IF GetRedisThrows
           THEN \* thrown outside the try block: the app's onError answers
                proc' = [proc EXCEPT ![p] =
                     [Idle EXCEPT !.pc = "done", !.rid = Len(arr) + 1, !.now = clock,
                                  !.status = INTERNAL_SERVER_ERROR, !.err = TRUE,
                                  !.threw = TRUE]]
           ELSE proc' = [q \in Procs |->
                     IF q = p
                     THEN [Idle EXCEPT !.pc = "prune", !.rid = Len(arr) + 1,
                                       !.key = KeyOf(h), !.now = clock,
                                       !.ovl = (NumInFlight > 0)]
                     ELSE IF InFlight(q) THEN [proc[q] EXCEPT !.ovl = TRUE] ELSE proc[q]]
    /\ UNCHANGED <<clock, redisClient, zset, ttl, max, windowInSeconds, k, adm, faults, raced, clients, others, gateVars, auxVars>>

\* await redis.zRemRangeByScore(key, 0, windowStart)
Prune(p) ==
    /\ proc[p].pc = "prune"
    /\ redisClient = "ready"
    /\ LET b == Bucket(proc[p].key)
           z == ZRemRangeByScore(LiveSet(b.z, b.t, clock), 0, WindowStart(proc[p].now))
       IN Store(proc[p].key, z, LiveTtl(z, b.t, clock))
    /\ proc' = [proc EXCEPT ![p].pc = "count"]
    /\ UNCHANGED <<clock, redisClient, max, windowInSeconds, k, arr, adm, faults, raced, clients, via, gateVars, auxVars>>

\* Mutant: the denied request is recorded like an admitted one.
OnDeniedRecorded(z, score, nonce) == z \cup {[score |-> score, id |-> nonce]}

\* if (requestCount >= max) { ...; return handler(c); }: the branch sends
\* no command, the sorted set stays as the count found it.
OnDenied(z, score, nonce) == z

\* await redis.zCard(key), the headers, and the limit check.
Count(p) ==
    /\ proc[p].pc = "count"
    /\ redisClient = "ready"
    /\ LET b == Bucket(proc[p].key)
           z == LiveSet(b.z, b.t, clock)
           requestCount == ZCard(z)
           kept == IF LimitExceeded(requestCount, max)
                   THEN OnDenied(z, proc[p].now, proc[p].rid) ELSE z
           withHeaders == [proc[p] EXCEPT
               !.cnt = requestCount,
               !.hdr = TRUE,
               !.limit = max,
               !.remaining = Remaining(max, requestCount),
               !.reset = CeilDiv(proc[p].now + WindowMs, MsPerSec)]
       IN /\ Store(proc[p].key, kept, LiveTtl(kept, b.t, clock))
          /\ IF LimitExceeded(requestCount, max)
             THEN proc' = [proc EXCEPT ![p] = [withHeaders EXCEPT
                      !.pc = "done", !.retrySet = TRUE, !.retry = windowInSeconds,
                      !.status = TOO_MANY_REQUESTS]]
             ELSE proc' = [proc EXCEPT ![p] = [withHeaders EXCEPT !.pc = "add"]]
          /\ raced' = (raced \/ (~LimitExceeded(requestCount, max)
                                 /\ \E q \in Procs \ {p} : proc[q].pc = "add"))
    /\ UNCHANGED <<clock, redisClient, max, windowInSeconds, k, arr, adm, faults, clients, via, gateVars, auxVars>>

\* await redis.zAdd(key, { score: now, value: `${now}-${Math.random()}` })
Add(p) ==
    /\ proc[p].pc = "add"
    /\ redisClient = "ready"
    /\ LET b == Bucket(proc[p].key)
           z == ZAdd(LiveSet(b.z, b.t, clock), proc[p].now, proc[p].rid)
       IN Store(proc[p].key, z, LiveTtl(z, b.t, clock))
    /\ proc' = [proc EXCEPT ![p].pc = "expire"]
    /\ UNCHANGED <<clock, redisClient, max, windowInSeconds, k, arr, adm, faults, raced, clients, via, gateVars, auxVars>>

\* await redis.expire(key, windowInSeconds); return next()
ExpireKey(p) ==
    /\ proc[p].pc = "expire"
    /\ redisClient = "ready"
    /\ LET b == Bucket(proc[p].key)
           z == LiveSet(b.z, b.t, clock)
       IN Store(proc[p].key, z, Expire(z, LiveTtl(z, b.t, clock), clock, windowInSeconds))
    /\ proc' = [proc EXCEPT ![p].pc = "done", ![p].next = TRUE, ![p].status = OK]
    /\ adm' = adm \cup {proc[p].rid}
    /\ UNCHANGED <<clock, redisClient, max, windowInSeconds, k, arr, faults, raced, clients, via, gateVars, auxVars>>

\* ------------------------------------------------------- the Redis client
\* initRedis() up to `await redisClient.connect()`
InitRedisCreate ==
    /\ redisClient = "null"
    /\ redisClient' = "created"
    /\ UNCHANGED <<clock, zset, ttl, max, windowInSeconds, k, proc, arr, adm, faults, raced, keyVars, gateVars, auxVars>>

\* the connect completes
InitRedisConnect ==
    /\ redisClient = "created"
    /\ redisClient' = "ready"
    /\ UNCHANGED <<clock, zset, ttl, max, windowInSeconds, k, proc, arr, adm, faults, raced, keyVars, gateVars, auxVars>>

\* closeRedis(), called by gracefulShutdown
CloseRedis ==
    /\ redisClient \in {"created", "ready"}
    /\ redisClient' = "closed"
    /\ UNCHANGED <<clock, zset, ttl, max, windowInSeconds, k, proc, arr, adm, faults, raced, keyVars, gateVars, auxVars>>

\* ------------------------------------------------------------------ time
Tick ==
    /\ clock + TickMs <= MaxClock
    /\ clock' = clock + TickMs
    /\ UNCHANGED <<redisClient, zset, ttl, max, windowInSeconds, k, proc, arr, adm, faults, raced, keyVars, gateVars, auxVars>>

\* ------------------------------------------------------- token checking
Secrets == {"s1", "s2"}

Subjects == {"u1", "u2"}

\* Date.now() / 1000 | 0, the clock a token's exp is compared with
NowSec == clock \div MsPerSec

Garbage == [form |-> "garbage", key |-> "s1", exp |-> 1, sub |-> "u1", type |-> "access"]

\* What can follow "Bearer ": a string that is no JWT, or a JWT signed with
\* `key` carrying {sub, exp, type}.
Tokens ==
    {Garbage} \cup
    [form : {"jwt"}, key : Secrets, exp : {1, 2}, sub : Subjects,
     type : {"access", "refresh"}]

\* verify(token, secret) of hono/jwt throws on a malformed token, a signature
\* made with another secret, and an exp that has passed.
VerifyThrows(token, secret) ==
    \/ token.form # "jwt"
    \/ token.key # secret
    \/ token.exp <= NowSec

Null == [isNull |-> TRUE, sub |-> "u1", exp |-> 1, type |-> "access"]

Decode(token) == [isNull |-> FALSE, sub |-> token.sub, exp |-> token.exp, type |-> token.type]

\* verifyAccessToken: try { return await verify(token, JWT_SECRET) }
\*                    catch { return null }
VerifyAccessToken(token) ==
    IF VerifyThrows(token, env.JWT_SECRET)
    THEN [threw |-> FALSE, payload |-> Null]
    ELSE [threw |-> FALSE, payload |-> Decode(token)]

\* ------------------------------------------------------ relational store
RoleRows == {[id |-> 1, name |-> "analyst"], [id |-> 2, name |-> "editor"]}

PermRows == {[id |-> 1, name |-> "report.view"], [id |-> 2, name |-> "post.publish"]}

RoleNames == {r.name : r \in RoleRows}

PermNames == {p.name : p \in PermRows}

\* The orders in which a query can return the rows of a relation.
RowOrders(S) ==
    {q \in [1..Cardinality(S) -> S] : \A i, j \in 1..Cardinality(S) : q[i] = q[j] => i = j}

\* The rows of tb_user_role of user u: each has its own id.
UserRolesOf(u) == {x \in db.user_roles : x.user_id = u}

RolesOf(u) == {r \in db.roles : \E x \in UserRolesOf(u) : x.role_id = r.id}

PermsOfRole(r) == {p \in PermRows : <<r.id, p>> \in db.role_permissions}

DirectPermsOf(u) == {p \in PermRows : <<u, p>> \in db.user_permissions}

\* prisma.user.findUnique({ where: { id }, select: selectUserFields }) for a
\* user that exists, its rows returned in the orders ro, po and dpo.
RoleById(id) == CHOOSE r \in db.roles : r.id = id

UserRow(u, ro, po, dpo) ==
    [id |-> u,
     user_roles |-> [i \in 1..Len(ro) |->
                        LET role == RoleById(ro[i].role_id)
                        IN [id |-> role.id, name |-> role.name,
                            role_permissions |-> po[role]]],
     user_permissions |-> dpo]

UserRows(u) ==
    {UserRow(u, ro, po, dpo) :
        ro \in RowOrders(UserRolesOf(u)),
        po \in {f \in [db.roles -> UNION {RowOrders(PermsOfRole(r)) : r \in db.roles}] :
                    \A r \in db.roles : f[r] \in RowOrders(PermsOfRole(r))},
        dpo \in RowOrders(DirectPermsOf(u))}

\* ---------------------------------------------------------- transformUser
RECURSIVE FlatMapRolePermissions(_)
\* user.user_roles.flatMap((ur) => ur.role.role_permissions.map((rp) => rp.permission))
FlatMapRolePermissions(userRoles) ==
    IF userRoles = <<>> THEN <<>>
    ELSE Head(userRoles).role_permissions \o FlatMapRolePermissions(Tail(userRoles))

RECURSIVE MapValuesFrom(_, _)
MapValuesFrom(ps, i) ==
    IF i > Len(ps) THEN <<>>
    ELSE LET firstOfId == \A j \in 1..(i - 1) : ps[j].id # ps[i].id
             lastIdx == CHOOSE j \in i..Len(ps) :
                            /\ ps[j].id = ps[i].id
                            /\ \A h \in (j + 1)..Len(ps) : ps[h].id # ps[i].id
         IN (IF firstOfId THEN <<ps[lastIdx]>> ELSE <<>>) \o MapValuesFrom(ps, i + 1)

\* Mutant: the merged list is returned without deduplication.
UniquePermissionsNoDedup(allPermissions) == allPermissions

\* Array.from(new Map(allPermissions.map((p) => [p.id, p])).values()):
\* one entry per id, in the order the ids first appear, holding the value
\* set last.
UniquePermissions(allPermissions) == MapValuesFrom(allPermissions, 1)

TransformUser(user) ==
    LET rolePermissions == FlatMapRolePermissions(user.user_roles)
        directPermissions == user.user_permissions
        allPermissions == rolePermissions \o directPermissions
    IN [id |-> user.id,
        roles |-> [i \in 1..Len(user.user_roles) |->
                      [id |-> user.user_roles[i].id, name |-> user.user_roles[i].name]],
        permissions |-> UniquePermissions(allPermissions)]

\* ------------------------------------------- role and permission stages
Includes(list, x) == \E i \in 1..Len(list) : list[i] = x

\* names of the roles in user.user_roles
UserRoleNames(u) == {r.name : r \in RolesOf(u)}

\* rolePermissions: names reached through the user's roles
RolePermissionNames(u) == {p.name : p \in UNION {PermsOfRole(r) : r \in RolesOf(u)}}

\* directPermissions: names granted to the user itself
DirectPermissionNames(u) == {p.name : p \in DirectPermsOf(u)}

\* Mutant: the direct grants are left out of the merge.
AllPermissionsRolesOnly(u) == RolePermissionNames(u)

\* [...new Set([...rolePermissions, ...directPermissions])]
AllPermissions(u) == RolePermissionNames(u) \cup DirectPermissionNames(u)

\* user.user_roles.some((ur) => ur.role.name === roleName)
HasRole(u, roleName) == \E n \in UserRoleNames(u) : n = roleName

\* user.user_roles.some((ur) => roleNames.includes(ur.role.name))
HasAnyRole(u, roleNames) == \E n \in UserRoleNames(u) : Includes(roleNames, n)

\* Mutant: an empty list of names is treated as "nothing to hold".
HasAllRolesNonEmpty(u, roleNames) ==
    /\ roleNames # <<>>
    /\ \A i \in 1..Len(roleNames) : roleNames[i] \in UserRoleNames(u)

\* roleNames.every((roleName) => userRoles.includes(roleName))
HasAllRoles(u, roleNames) ==
    \A i \in 1..Len(roleNames) : roleNames[i] \in UserRoleNames(u)

\* allPermissions.includes(permissionName)
HasPermission(u, permissionName) == permissionName \in AllPermissions(u)

\* permissionNames.some((permission) => allPermissions.includes(permission))
HasAnyPermission(u, permissionNames) ==
    \E i \in 1..Len(permissionNames) : permissionNames[i] \in AllPermissions(u)

\* permissionNames.every((permission) => allPermissions.includes(permission))
HasAllPermissions(u, permissionNames) ==
    \A i \in 1..Len(permissionNames) : permissionNames[i] \in AllPermissions(u)

\* The argument lists a require* stage is built with.
NameLists(S) == {<<>>} \cup {<<n>> : n \in S} \cup {<<a, b>> : a, b \in S}

\* The stage that follows authMiddleware on a route: none (profile, logout)
\* or one require* stage with its argument.
Stages ==
    {[fn |-> "none", names |-> <<>>]}
    \cup [fn : {"requireRole"}, names : {<<n>> : n \in RoleNames}]
    \cup [fn : {"requireAnyRole", "requireAllRoles"}, names : NameLists(RoleNames)]
    \cup [fn : {"requirePermission"}, names : {<<n>> : n \in PermNames}]
    \cup [fn : {"requireAnyPermission", "requireAllPermissions"}, names : NameLists(PermNames)]

StageAllows(stage, u) ==
    CASE stage.fn = "requireRole" -> HasRole(u, stage.names[1])
      [] stage.fn = "requireAnyRole" -> HasAnyRole(u, stage.names)
      [] stage.fn = "requireAllRoles" -> HasAllRoles(u, stage.names)
      [] stage.fn = "requirePermission" -> HasPermission(u, stage.names[1])
      [] stage.fn = "requireAnyPermission" -> HasAnyPermission(u, stage.names)
      [] stage.fn = "requireAllPermissions" -> HasAllPermissions(u, stage.names)

\* ---------------------------------------------------------- the gate chain
UNAUTHORIZED == 401
FORBIDDEN == 403
NOT_FOUND == 404
CONFLICT == 409

NoBody == [id |-> "", roles |-> <<>>, permissions |-> <<>>]

\* The Authorization header: absent, not starting with "Bearer ", or
\* "Bearer " followed by a token.
AuthHeaders ==
    {[kind |-> "absent", token |-> Garbage], [kind |-> "other", token |-> Garbage]}
    \cup [kind : {"bearer"}, token : Tokens]

NoRequest ==
    [pc |-> "idle", auth |-> [kind |-> "absent", token |-> Garbage],
     stage |-> [fn |-> "none", names |-> <<>>],
     jwtPayload |-> Null, payloadSet |-> FALSE,
     invoked |-> {}, verifyCalled |-> FALSE,
     status |-> 0, dbErr |-> FALSE, body |-> NoBody]

\* A request with Authorization header a enters the chain of a route whose
\* middleware is [authMiddleware] followed by stage st.
EnterChain(a, st) ==
    /\ req.pc = "idle"
    /\ req' = [NoRequest EXCEPT !.pc = "auth", !.auth = a, !.stage = st]
    /\ UNCHANGED <<clock, limVars, env, db, auxVars>>

\* A request enters the chain of a protected route.
NewRequest == \E a \in AuthHeaders, st \in Stages : EnterChain(a, st)

\* generateAccessToken(id_user): signed with JWT_SECRET, not yet expired,
\* no type claim.
AccessTokenOf(u) ==
    [form |-> "jwt", key |-> env.JWT_SECRET, exp |-> NowSec + 1, sub |-> u,
     type |-> "access"]

\* A logged-in user calls a route guarded by requireRole or requirePermission.
NewAuthorizedRequest ==
    \E st \in {x \in Stages : x.fn \in {"requireRole", "requirePermission"}} :
        EnterChain([kind |-> "bearer", token |-> AccessTokenOf("u1")], st)

Respond(r, status) == [r EXCEPT !.pc = "done", !.status = status]

\* Mutant: only a missing header is turned away.
StartsWithBearerOrAnything(auth) == auth.kind # "absent"

\* auth?.startsWith("Bearer ")
StartsWithBearer(auth) == auth.kind = "bearer"

\* authMiddleware
AuthMiddleware ==
    /\ req.pc = "auth"
    /\ LET r == [req EXCEPT !.invoked = @ \cup {"auth"}]
       IN IF ~StartsWithBearer(req.auth)
          THEN \* if (!auth?.startsWith("Bearer ")) return 401
               req' = Respond(r, UNAUTHORIZED)
          ELSE LET v == VerifyAccessToken(req.auth.token)
               IN IF v.threw
                  THEN \* catch { return 401 }
                       req' = Respond([r EXCEPT !.verifyCalled = TRUE], UNAUTHORIZED)
                  ELSE \* c.set("jwtPayload", payload); await next()
                       req' = [r EXCEPT !.jwtPayload = v.payload, !.payloadSet = TRUE,
                                        !.verifyCalled = TRUE,
                                        !.pc = IF req.stage.fn = "none"
                                               THEN "handler" ELSE "stage"]
    /\ UNCHANGED <<clock, limVars, env, db, auxVars>>

\* Mutant: the lookup result is never checked for null.
SubjectMissingIgnored(u) == FALSE

\* if (!user): findUnique returned null
SubjectMissing(u) == u \notin db.users

RequireFns ==
    {"requireRole", "requireAnyRole", "requireAllRoles",
     "requirePermission", "requireAnyPermission", "requireAllPermissions"}

\* Mutant: the stage catches the store's error and lets the request pass.
OnLookupErrorFailOpen(r) == [r EXCEPT !.pc = "handler", !.dbErr = TRUE]

\* `await prisma.user.findUnique(...)` rejects inside a require* stage: the
\* stage has no try/catch, the error reaches the app's onError (500).
OnLookupError(r) == [Respond(r, INTERNAL_SERVER_ERROR) EXCEPT !.dbErr = TRUE]

\* One of requireRole .. requireAllPermissions; a thrown HTTPException is
\* answered by the app's onError with the exception's status.
RequireStage ==
    /\ req.pc = "stage"
    /\ req.stage.fn \in RequireFns
    /\ LET r == [req EXCEPT !.invoked = @ \cup {"stage"}]
           u == req.jwtPayload.sub
       IN IF req.jwtPayload.isNull
          THEN req' = Respond(r, UNAUTHORIZED)
          ELSE \/ \* prisma.user.findUnique rejects
                  req' = OnLookupError(r)
               \/ req' = IF SubjectMissing(u) THEN Respond(r, NOT_FOUND)
                         ELSE IF ~StageAllows(req.stage, u) THEN Respond(r, FORBIDDEN)
                         ELSE [r EXCEPT !.pc = "handler"]
    /\ UNCHANGED <<clock, limVars, env, db, auxVars>>

\* The protected handler: the profile controller on a route without a
\* require* stage, a resource controller otherwise.
Handler ==
    /\ req.pc = "handler"
    /\ LET r == [req EXCEPT !.invoked = @ \cup {"handler"}]
           u == req.jwtPayload.sub
       IN IF req.stage.fn # "none"
          THEN req' = Respond(r, OK)
          ELSE IF req.jwtPayload.isNull
          THEN \* jwtPayload.sub on null: TypeError, answered by onError
               req' = Respond(r, INTERNAL_SERVER_ERROR)
          ELSE \/ req' = [Respond(r, INTERNAL_SERVER_ERROR) EXCEPT !.dbErr = TRUE]
               \/ /\ u \notin db.users
                  /\ req' = Respond(r, NOT_FOUND)
               \/ /\ u \in db.users
                  /\ \E row \in UserRows(u) :
                        req' = [Respond(r, OK) EXCEPT !.body = TransformUser(row)]
    /\ UNCHANGED <<clock, limVars, env, db, auxVars>>

\* The response is sent and the request's context is discarded.
Finish ==
    /\ req.pc = "done"
    /\ req' = NoRequest
    /\ UNCHANGED <<clock, limVars, env, db, auxVars>>

EmptyDb ==
    [users |-> {}, roles |-> {}, user_roles |-> {}, role_permissions |-> {},
     user_permissions |-> {}]

\* A row of tb_user_role.
UserRoleRow(id, u, roleId) == [id |-> id, user_id |-> u, role_id |-> roleId]

RoleIds == {r.id : r \in RoleRows}

\* No administration task is running.
AdminIdle == [op |-> "none", pc |-> "idle", u |-> "u1", role |-> 0, name |-> "",
              status |-> 0]

AdminProcs == 1..NumAdmins

NoHist == [ops |-> 0, revoked |-> {}, served |-> {}, cur |-> 0, keys |-> {}]

\* No refresh call is being served.
NoRefresh == [pc |-> "idle", token |-> Garbage, at |-> 0, decode |-> Null,
              status |-> 0, issued |-> FALSE, access_token |-> Garbage]

AuxAtRest ==
    /\ admin = [a \in AdminProcs |-> AdminIdle]
    /\ hist = NoHist
    /\ rf = NoRefresh

DefaultEnv == [JWT_SECRET |-> "s1", REFRESH_TOKEN_SECRET |-> "s2"]

\* ------------------------------------------------- role administration
\* Names a role can be created with or renamed to; "" is `data.name` absent.
AdminRoleNames == RoleNames \cup {"auditor"}

\* Role ids a call can name: the stored ones and one that does not exist.
NoSuchRole == 9

AdminRoleIds == RoleIds \cup {NoSuchRole}

AdminFree(a) == admin[a].pc \in {"idle", "done"} /\ hist.ops < MaxAdminOps

AdminBegin(a, op, pc, u, role, name) ==
    /\ admin' = [admin EXCEPT ![a] =
                    [AdminIdle EXCEPT !.op = op, !.pc = pc, !.u = u,
                                      !.role = role, !.name = name]]
    /\ hist' = [hist EXCEPT !.ops = @ + 1]

AdminEnd(a, status) == admin' = [admin EXCEPT ![a].pc = "done", ![a].status = status]

AdminGoto(a, pc) == admin' = [admin EXCEPT ![a].pc = pc]

\* The smallest id no row of the table holds (ids are generated, never
\* chosen by the caller).
FreshId(rows) == CHOOSE n \in 1..(Cardinality(rows) + 1) : \A x \in rows : x.id # n

\* tb_role carries a unique index on name: findByName reads it with
\* prisma.role.findUnique({ where: { name } }).
RoleNameTaken(name, exceptId) == \E r \in db.roles : r.name = name /\ r.id # exceptId

\* RolesService.create(data) is called.
StartCreate(a) ==
    /\ AdminFree(a)
    /\ \E name \in AdminRoleNames : AdminBegin(a, "create", "findByName", "u1", 0, name)
    /\ UNCHANGED <<clock, limVars, gateVars, rf>>

\* RolesService.update(id, data) is called.
StartUpdate(a) ==
    /\ AdminFree(a)
    /\ \E id \in AdminRoleIds, name \in AdminRoleNames \cup {""} :
         AdminBegin(a, "update", "findById", "u1", id, name)
    /\ UNCHANGED <<clock, limVars, gateVars, rf>>

\* RolesService.assignRoleToUser(userId, roleId) is called.
StartAssign(a) ==
    /\ AdminFree(a)
    /\ \E u \in Subjects, id \in AdminRoleIds :
         AdminBegin(a, "assign", "findById", u, id, "")
    /\ UNCHANGED <<clock, limVars, gateVars, rf>>

\* RolesService.removeRoleFromUser(userId, roleId) is called.
StartRemove(a) ==
    /\ AdminFree(a)
    /\ \E u \in Subjects, id \in AdminRoleIds :
         AdminBegin(a, "remove", "findById", u, id, "")
    /\ UNCHANGED <<clock, limVars, gateVars, rf>>

\* await findById(id): throws NOT_FOUND when the role is not stored.
RoleFindById(a) ==
    /\ admin[a].pc = "findById"
    /\ IF ~\E r \in db.roles : r.id = admin[a].role
       THEN AdminEnd(a, NOT_FOUND)
       ELSE AdminGoto(a, CASE admin[a].op = "update" ->
                                 IF admin[a].name # "" THEN "findByName" ELSE "write"
                           [] admin[a].op = "assign" -> "findUser"
                           [] admin[a].op = "remove" -> "findFirst")
    /\ UNCHANGED <<clock, limVars, gateVars, hist, rf>>

\* await findByName(data.name), and the check of what it returned.
RoleFindByName(a) ==
    /\ admin[a].pc = "findByName"
    /\ LET exceptId == IF admin[a].op = "update" THEN admin[a].role ELSE 0
       IN IF RoleNameTaken(admin[a].name, exceptId)
          THEN AdminEnd(a, CONFLICT)
          ELSE AdminGoto(a, "write")
    /\ UNCHANGED <<clock, limVars, gateVars, hist, rf>>

\* await prisma.role.create({ data }) / prisma.role.update({ where, data }):
\* the store rejects a write that would break the unique index, and the
\* rejection, which the service does not catch, is answered with 500.
RoleWrite(a) ==
    /\ admin[a].pc = "write"
    /\ admin[a].op \in {"create", "update"}
    /\ IF admin[a].op = "create"
       THEN IF RoleNameTaken(admin[a].name, 0)
            THEN AdminEnd(a, INTERNAL_SERVER_ERROR) /\ UNCHANGED db
            ELSE /\ db' = [db EXCEPT !.roles =
                              @ \cup {[id |-> FreshId(db.roles), name |-> admin[a].name]}]
                 /\ AdminEnd(a, OK)
       ELSE IF admin[a].name = ""
            THEN AdminEnd(a, OK) /\ UNCHANGED db
            ELSE IF RoleNameTaken(admin[a].name, admin[a].role)
            THEN AdminEnd(a, INTERNAL_SERVER_ERROR) /\ UNCHANGED db
            ELSE /\ db' = [db EXCEPT !.roles =
                              {IF r.id = admin[a].role
                               THEN [r EXCEPT !.name = admin[a].name] ELSE r : r \in @}]
                 /\ AdminEnd(a, OK)
    /\ UNCHANGED <<clock, limVars, env, req, hist, rf>>

\* await prisma.user.findUnique({ where: { id: userId } })
AssignFindUser(a) ==
    /\ admin[a].pc = "findUser"
    /\ IF admin[a].u \notin db.users
       THEN AdminEnd(a, NOT_FOUND)
       ELSE AdminGoto(a, "findFirst")
    /\ UNCHANGED <<clock, limVars, gateVars, hist, rf>>

\* The rows of tb_user_role for the pair (u, role).
AssignmentRows(u, role) == {x \in db.user_roles : x.user_id = u /\ x.role_id = role}

\* await prisma.userRole.findFirst({ where: { user_id, role_id } })
UserRoleFindFirst(a) ==
    /\ admin[a].pc = "findFirst"
    /\ LET existingUserRole == AssignmentRows(admin[a].u, admin[a].role) # {}
       IN IF admin[a].op = "assign"
          THEN IF existingUserRole THEN AdminEnd(a, CONFLICT) ELSE AdminGoto(a, "write")
          ELSE IF ~existingUserRole THEN AdminEnd(a, NOT_FOUND) ELSE AdminGoto(a, "write")
    /\ UNCHANGED <<clock, limVars, gateVars, hist, rf>>

\* await prisma.userRole.create({ data: { user_id, role_id } })
UserRoleCreate(a) ==
    /\ admin[a].pc = "write"
    /\ admin[a].op = "assign"
    /\ db' = [db EXCEPT !.user_roles =
                 @ \cup {UserRoleRow(FreshId(db.user_roles), admin[a].u, admin[a].role)}]
    /\ AdminEnd(a, OK)
    /\ hist' = [hist EXCEPT !.revoked = @ \ {<<admin[a].u, admin[a].role>>}]
    /\ UNCHANGED <<clock, limVars, env, req, rf>>

\* Mutant: the delete matches no row.
DeleteManyNone(rows, u, role) == rows

\* prisma.userRole.deleteMany({ where: { user_id, role_id } })
DeleteMany(rows, u, role) == {x \in rows : ~(x.user_id = u /\ x.role_id = role)}

\* await prisma.userRole.deleteMany(...) of removeRoleFromUser
UserRoleDeleteMany(a) ==
    /\ admin[a].pc = "write"
    /\ admin[a].op = "remove"
    /\ db' = [db EXCEPT !.user_roles = DeleteMany(@, admin[a].u, admin[a].role)]
    /\ AdminEnd(a, OK)
    /\ hist' = [hist EXCEPT !.revoked = @ \cup {<<admin[a].u, admin[a].role>>}]
    /\ UNCHANGED <<clock, limVars, env, req, rf>>

\* ------------------------------------- routes without authMiddleware
\* A request on a permissions route (list, show, create, update, delete):
\* the route declares no middleware, so the handler is the first stage.
NewOpenRequest ==
    /\ req.pc = "idle"
    /\ \E a \in AuthHeaders :
         req' = [NoRequest EXCEPT !.pc = "handler", !.auth = a,
                                  !.stage = [fn |-> "permissions", names |-> <<>>]]
    /\ UNCHANGED <<clock, limVars, env, db, auxVars>>

\* ---------------------------------------------------- rateLimiterByUser
Ips == {"10.0.0.1", "10.0.0.2"}

\* c.get(name): authMiddleware is the only stage that sets a context
\* variable, and the one it sets is "jwtPayload".
CtxGet(r, name) == IF name = "jwtPayload" /\ r.payloadSet THEN r.jwtPayload ELSE Null

\* keyGenerator of rateLimiterByUser:
\*   const user = c.get("user");
\*   return user ? `rate-limit:user:${user.sub}` : defaultKeyGenerator(c)
KeyByUser(r, ip) ==
    LET user == CtxGet(r, "user")
    IN IF ~user.isNull THEN <<"rate-limit:user", user.sub>> ELSE DefaultKeyGenerator(ip)

\* A logged-in user calls, from some address, a route whose middleware is
\* [authMiddleware, rateLimiterByUser()].
NewByUserRequest ==
    \E u \in Subjects :
        EnterChain([kind |-> "bearer", token |-> AccessTokenOf(u)],
                   [fn |-> "rateLimiterByUser", names |-> <<>>])

\* rateLimiterByUser computes the key of the bucket the request counts in.
RateLimiterByUser ==
    /\ req.pc = "stage"
    /\ req.stage.fn = "rateLimiterByUser"
    /\ \E ip \in Ips :
         hist' = [hist EXCEPT !.keys = @ \cup
                     {[ip |-> ip, verified |-> ~req.jwtPayload.isNull,
                       sub |-> req.jwtPayload.sub, key |-> KeyByUser(req, ip)]}]
    /\ req' = [req EXCEPT !.invoked = @ \cup {"stage"}, !.pc = "handler"]
    /\ UNCHANGED <<clock, limVars, env, db, admin, rf>>

\* ------------------------------------------- the limiter before the chain
\* The limiter's middleware called next() for the request of task p: the
\* stages registered after it run. `return handler(c)` ends the chain.
CalledNextOrReturned(p) == proc[p].pc = "done"

CalledNext(p) == proc[p].pc = "done" /\ proc[p].next

\* What reaches the chain in the combined model: no header, a bad token or
\* a good one, on the profile route or on a route guarded by a role.
ChainInputs ==
    {[kind |-> "absent", token |-> Garbage], [kind |-> "bearer", token |-> Garbage],
     [kind |-> "bearer", token |-> AccessTokenOf("u1")]}
    \X {[fn |-> "none", names |-> <<>>], [fn |-> "requireRole", names |-> <<"analyst">>]}

\* app.use("/api/*", globalRateLimiter()) is registered before the routes:
\* the route's middleware starts when the limiter has called next().
Downstream(p) ==
    /\ CalledNext(p)
    /\ proc[p].rid \notin hist.served
    /\ req.pc = "idle"
    /\ \E in \in ChainInputs :
         req' = [NoRequest EXCEPT !.pc = "auth", !.auth = in[1], !.stage = in[2]]
    /\ hist' = [hist EXCEPT !.served = @ \cup {proc[p].rid}, !.cur = proc[p].rid]
    /\ UNCHANGED <<clock, limVars, env, db, admin, rf>>

\* ------------------------------------------------------------- refresh
\* Mutant: the type claim of the decoded token is not looked at.
VerifyRefreshTokenAnyType(token) ==
    IF VerifyThrows(token, env.REFRESH_TOKEN_SECRET) THEN Null ELSE Decode(token)

\* verifyRefreshToken: try { decode = await verify(token, REFRESH_TOKEN_SECRET);
\*   if (decode.type !== "refresh") return null; return decode }
\* catch { return null }
VerifyRefreshToken(token) ==
    IF VerifyThrows(token, env.REFRESH_TOKEN_SECRET) THEN Null
    ELSE IF token.type # "refresh" THEN Null
    ELSE Decode(token)

\* POST /api/v1/auth/refresh with body { refresh_token }
RefreshRequest ==
    /\ rf.pc = "idle"
    /\ \E t \in Tokens : rf' = [NoRefresh EXCEPT !.pc = "verify", !.token = t]
    /\ UNCHANGED <<clock, limVars, gateVars, admin, hist>>

\* AuthService.refresh: await verifyRefreshToken; if (!decode) throw 401
RefreshVerify ==
    /\ rf.pc = "verify"
    /\ LET decode == VerifyRefreshToken(rf.token)
       IN rf' = IF decode.isNull
                THEN [rf EXCEPT !.pc = "done", !.at = NowSec, !.status = UNAUTHORIZED]
                ELSE [rf EXCEPT !.pc = "sign", !.at = NowSec, !.decode = decode]
    /\ UNCHANGED <<clock, limVars, gateVars, admin, hist>>

\* AuthService.refresh: await generateAccessToken(decode.sub); the
\* controller answers 200 with { access_token }
RefreshSign ==
    /\ rf.pc = "sign"
    /\ rf' = [rf EXCEPT !.pc = "done", !.status = OK, !.issued = TRUE,
                        !.access_token = AccessTokenOf(rf.decode.sub)]
    /\ UNCHANGED <<clock, limVars, gateVars, admin, hist>>

\* The response is sent.
RefreshFinish ==
    /\ rf.pc = "done"
    /\ rf' = NoRefresh
    /\ UNCHANGED <<clock, limVars, gateVars, admin, hist>>

Init ==
    /\ clock = 0
    /\ env = DefaultEnv
    /\ db = EmptyDb
    /\ req = NoRequest
    /\ redisClient = "null"
    /\ zset = {}
    /\ ttl = NoTtl
    /\ max \in 0..MaxMax
    /\ windowInSeconds \in 1..MaxWindowSec
    /\ k \in 1..NumProcs
    /\ proc = [p \in Procs |-> Idle]
    /\ arr = <<>>
    /\ adm = {}
    /\ faults = 0
    /\ raced = FALSE
    /\ clients = {NoHeaders}
    /\ KeysAtRest
    /\ AuxAtRest

Next ==
    \/ \E p \in Procs : Start(p)
    \/ \E p \in Procs : Prune(p)
    \/ \E p \in Procs : Count(p)
    \/ \E p \in Procs : Add(p)
    \/ \E p \in Procs : ExpireKey(p)
    \/ \E p \in Procs : StoreError(p)
    \/ InitRedisCreate
    \/ InitRedisConnect
    \/ CloseRedis
    \/ Tick

Spec == Init /\ [][Next]_vars

\* The host runs one request at a time.
InitSeq == Init /\ k = 1

SpecSeq == InitSeq /\ [][Next]_vars

\* The host runs requests concurrently.
InitConc == Init /\ k = NumProcs

SpecConc == InitConc /\ [][Next]_vars

\* Callers with different headers share the limiter, one request at a
\* time; the store stays reachable.
InitKeys ==
    /\ clock = 0
    /\ env = DefaultEnv
    /\ db = EmptyDb
    /\ req = NoRequest
    /\ redisClient = "ready"
    /\ zset = {}
    /\ ttl = NoTtl
    /\ max = 1
    /\ windowInSeconds = 1
    /\ k = 1
    /\ proc = [p \in Procs |-> Idle]
    /\ arr = <<>>
    /\ adm = {}
    /\ faults = 0
    /\ raced = FALSE
    /\ clients = HeaderSets
    /\ KeysAtRest
    /\ AuxAtRest

NextKeys ==
    \/ \E p \in Procs : Start(p)
    \/ \E p \in Procs : Prune(p)
    \/ \E p \in Procs : Count(p)
    \/ \E p \in Procs : Add(p)
    \/ \E p \in Procs : ExpireKey(p)
    \/ Tick

SpecKeys == InitKeys /\ [][NextKeys]_vars

\* The gate chain of one request over a stored user with any assignments
\* of roles and permissions; the limiter is at rest with a connected client.
InitGate ==
    /\ clock = MsPerSec
    /\ redisClient = "ready"
    /\ zset = {}
    /\ ttl = NoTtl
    /\ max = MaxMax
    /\ windowInSeconds = 1
    /\ k = 1
    /\ proc = [p \in Procs |-> Idle]
    /\ arr = <<>>
    /\ adm = {}
    /\ faults = 0
    /\ raced = FALSE
    /\ clients = {NoHeaders}
    /\ KeysAtRest
    /\ env = DefaultEnv
    /\ req = NoRequest
    /\ AuxAtRest
    /\ \E held \in SUBSET RoleIds,
          rp \in SUBSET (RoleIds \X PermRows),
          up \in SUBSET ({"u1"} \X PermRows) :
         db = [users |-> {"u1"}, roles |-> RoleRows,
               user_roles |-> {UserRoleRow(id, "u1", id) : id \in held},
               role_permissions |-> rp, user_permissions |-> up]

NextGate ==
    \/ NewRequest
    \/ NewOpenRequest
    \/ AuthMiddleware
    \/ RequireStage
    \/ Handler
    \/ Finish

SpecGate == InitGate /\ [][NextGate]_vars

\* The seeded grants: analyst -> report.view, editor -> post.publish.
SeedRolePermissions ==
    {x \in RoleIds \X PermRows : x[2].id = x[1]}

\* The limiter at rest with a connected client, nothing in the gate chain.
AtRest ==
    /\ clock = MsPerSec
    /\ redisClient = "ready"
    /\ zset = {}
    /\ ttl = NoTtl
    /\ max = MaxMax
    /\ windowInSeconds = 1
    /\ k = 1
    /\ proc = [p \in Procs |-> Idle]
    /\ arr = <<>>
    /\ adm = {}
    /\ faults = 0
    /\ raced = FALSE
    /\ clients = {NoHeaders}
    /\ KeysAtRest
    /\ req = NoRequest
    /\ AuxAtRest

\* Refresh calls under any configuration of the two secrets, with time passing.
InitRefresh ==
    /\ AtRest
    /\ env \in [JWT_SECRET : Secrets, REFRESH_TOKEN_SECRET : Secrets]
    /\ db = [EmptyDb EXCEPT !.users = {"u1"}, !.roles = RoleRows]

NextRefresh ==
    \/ RefreshRequest
    \/ RefreshVerify
    \/ RefreshSign
    \/ RefreshFinish
    \/ Tick

SpecRefresh == InitRefresh /\ [][NextRefresh]_vars

\* generateRefreshToken(id_user): signed with REFRESH_TOKEN_SECRET, not yet
\* expired, type = "refresh".
RefreshTokenOf(u) ==
    [form |-> "jwt", key |-> env.REFRESH_TOKEN_SECRET, exp |-> NowSec + 1, sub |-> u,
     type |-> "refresh"]

\* The pair of tokens login answers with.
IssuedTokens(u) == {AccessTokenOf(u), RefreshTokenOf(u)}

\* A client sends one of the tokens login gave it as the bearer credential
\* of GET /api/v1/auth/profile (middleware: [authMiddleware]).
PresentAsAccess ==
    \E u \in Subjects : \E t \in IssuedTokens(u) :
        EnterChain([kind |-> "bearer", token |-> t], [fn |-> "none", names |-> <<>>])

\* A client sends one of its tokens as the refresh_token of
\* POST /api/v1/auth/refresh.
PresentAsRefresh ==
    /\ rf.pc = "idle"
    /\ \E u \in Subjects : \E t \in IssuedTokens(u) :
         rf' = [NoRefresh EXCEPT !.pc = "verify", !.token = t]
    /\ UNCHANGED <<clock, limVars, gateVars, admin, hist>>

\* Each kind of issued token is presented at both places, under any
\* configuration of the two secrets.
NextTokens ==
    \/ PresentAsAccess
    \/ AuthMiddleware
    \/ Handler
    \/ Finish
    \/ PresentAsRefresh
    \/ RefreshVerify
    \/ RefreshSign
    \/ RefreshFinish
    \/ Tick

SpecTokens == InitRefresh /\ [][NextTokens]_vars

\* Requests pass the global limiter and then the chain of their route.
InitChain ==
    /\ AtRest
    /\ env = DefaultEnv
    /\ \E held \in SUBSET {1} :
         db = [users |-> {"u1"}, roles |-> RoleRows,
               user_roles |-> {UserRoleRow(id, "u1", id) : id \in held},
               role_permissions |-> SeedRolePermissions, user_permissions |-> {}]

NextChain ==
    \/ \E p \in Procs : Start(p)
    \/ \E p \in Procs : Prune(p)
    \/ \E p \in Procs : Count(p)
    \/ \E p \in Procs : Add(p)
    \/ \E p \in Procs : ExpireKey(p)
    \/ \E p \in Procs : StoreError(p)
    \/ \E p \in Procs : Downstream(p)
    \/ AuthMiddleware
    \/ RequireStage
    \/ Handler
    \/ Finish
    \/ Tick

SpecChain == InitChain /\ [][NextChain]_vars

\* Logged-in users call a route limited per account.
InitByUser ==
    /\ AtRest
    /\ env = DefaultEnv
    /\ db = [EmptyDb EXCEPT !.users = Subjects, !.roles = RoleRows]

NextByUser ==
    \/ NewByUserRequest
    \/ AuthMiddleware
    \/ RateLimiterByUser
    \/ Handler
    \/ Finish

SpecByUser == InitByUser /\ [][NextByUser]_vars

\* Roles are created and renamed by concurrent administration calls.
InitRoles ==
    /\ AtRest
    /\ env = DefaultEnv
    /\ db = [users |-> {"u1"}, roles |-> RoleRows, user_roles |-> {},
             role_permissions |-> SeedRolePermissions, user_permissions |-> {}]

NextRoles ==
    \/ \E a \in AdminProcs : StartCreate(a)
    \/ \E a \in AdminProcs : StartUpdate(a)
    \/ \E a \in AdminProcs : RoleFindById(a)
    \/ \E a \in AdminProcs : RoleFindByName(a)
    \/ \E a \in AdminProcs : RoleWrite(a)

SpecRoles == InitRoles /\ [][NextRoles]_vars

\* Roles are assigned to and removed from users by concurrent administration
\* calls while a logged-in user calls guarded routes.
InitAssign ==
    /\ AtRest
    /\ env = DefaultEnv
    /\ \E held \in SUBSET RoleIds :
         db = [users |-> {"u1"}, roles |-> RoleRows,
               user_roles |-> {UserRoleRow(id, "u1", id) : id \in held},
               role_permissions |-> SeedRolePermissions, user_permissions |-> {}]

NextAssign ==
    \/ \E a \in AdminProcs : StartAssign(a)
    \/ \E a \in AdminProcs : StartRemove(a)
    \/ \E a \in AdminProcs : RoleFindById(a)
    \/ \E a \in AdminProcs : AssignFindUser(a)
    \/ \E a \in AdminProcs : UserRoleFindFirst(a)
    \/ \E a \in AdminProcs : UserRoleCreate(a)
    \/ \E a \in AdminProcs : UserRoleDeleteMany(a)
    \/ NewAuthorizedRequest
    \/ AuthMiddleware
    \/ RequireStage
    \/ Handler
    \/ Finish

SpecAssign == InitAssign /\ [][NextAssign]_vars

\* ------------------------------------------------- rate limiter: claims
Done(p) == proc[p].pc = "done"

\* Requests that arrived before request p and inside its window.
PriorArrivalsInWindow(p) ==
    Cardinality({r \in 1..(proc[p].rid - 1) : arr[r] > proc[p].now - WindowMs})

\* Requests admitted before request p that arrived inside its window.
PriorAdmittedInWindow(p) ==
    Cardinality({r \in adm : r < proc[p].rid /\ arr[r] > proc[p].now - WindowMs})

\* A full window has passed since the last request before request p.
QuietWindowBefore(p) ==
    /\ proc[p].rid > 1
    /\ \A r \in 1..(proc[p].rid - 1) : arr[r] + WindowMs <= proc[p].now

\* C1: with max >= 1, the store client available and requests run one at a
\* time, a request with fewer than max earlier arrivals inside its window
\* (so it is among the first N <= max of that window) is admitted: next is
\* called and it is not answered 429.
C1_AdmitsWithinQuota ==
    \A p \in Procs :
        (Done(p) /\ k = 1 /\ max >= 1 /\ ~proc[p].threw
                 /\ PriorArrivalsInWindow(p) < max)
            => (proc[p].next /\ proc[p].status = OK)

\* The max-th request of one window was admitted on a count read from the store.
C1_Witness ==
    \E p \in Procs :
        /\ Done(p) /\ k = 1 /\ max = MaxMax /\ ~proc[p].err
        /\ PriorArrivalsInWindow(p) = max - 1
        /\ proc[p].cnt = max - 1
        /\ proc[p].next

\* C2: with requests run one at a time, a request that finds max requests
\* already admitted inside its window is denied: status 429, Retry-After =
\* windowInSeconds, next not called. Stated for the most favourable case:
\* no store command has ever errored and the request itself is served
\* within the instant it arrived in.
C2_DeniesBeyondQuota ==
    \A p \in Procs :
        (Done(p) /\ k = 1 /\ faults = 0 /\ ~proc[p].threw
                 /\ clock = proc[p].now
                 /\ PriorAdmittedInWindow(p) >= max)
            => /\ proc[p].status = TOO_MANY_REQUESTS
               /\ proc[p].retrySet /\ proc[p].retry = windowInSeconds
               /\ ~proc[p].next

\* C3: the limiter fails open for every store failure: a finished request
\* whose store access failed (getRedis, prune, count, insert or expire) had
\* next called and no error answered.
C3_FailsOpen ==
    \A p \in Procs :
        (Done(p) /\ proc[p].err)
            => (proc[p].next /\ proc[p].status # INTERNAL_SERVER_ERROR)

\* The most entries recorded for the key inside any one window.
WindowLoad(z) ==
    LET load(t) == Cardinality({e \in z : t - WindowMs < e.score /\ e.score <= t})
        ends == {e.score : e \in z}
    IN IF z = {} THEN 0
       ELSE CHOOSE n \in 0..Cardinality(z) :
                /\ \E t \in ends : load(t) = n
                /\ \A t \in ends : load(t) <= n

\* C5: more than max entries are recorded inside one window only after two
\* concurrent requests both read a count below max before either inserted
\* (and that interleaving exists: C5_Witness).
C5_OverAdmissionNeedsRace ==
    WindowLoad(LiveSet(zset, ttl, clock)) > max => (raced /\ k >= 2)

C5_Witness ==
    /\ WindowLoad(LiveSet(zset, ttl, clock)) > max
    /\ faults = 0
    /\ \A p \in Procs : Done(p) /\ proc[p].next /\ ~proc[p].err /\ proc[p].cnt < max

BadBearerToken ==
    req.auth.kind = "bearer" /\ VerifyThrows(req.auth.token, env.JWT_SECRET)

\* The require* stage reached its decision on a stored subject: verified
\* claims, the lookup answered, and it found the user.
StageDecided ==
    /\ req.stage.fn # "none"
    /\ "stage" \in req.invoked
    /\ ~req.jwtPayload.isNull
    /\ ~req.dbErr
    /\ req.jwtPayload.sub \in db.users

NextCalledByStage == req.pc = "handler" \/ "handler" \in req.invoked

\* C4: a request whose bearer token fails verification (bad signature,
\* malformed, expired) is answered 401 by authMiddleware itself; no require*
\* stage and no protected handler is invoked for it.
C4_BadTokenStopsAtAuth ==
    BadBearerToken =>
        /\ req.pc \notin {"stage", "handler"}
        /\ req.invoked \subseteq {"auth"}
        /\ req.pc = "done" => req.status = UNAUTHORIZED

\* The permission rows the store holds for user u, through roles or directly.
EffectivePermissionRows(u) ==
    {p \in PermRows :
        \/ <<u, p>> \in db.user_permissions
        \/ \E r \in db.roles, x \in db.user_roles :
              x.user_id = u /\ x.role_id = r.id /\ <<r.id, p>> \in db.role_permissions}

SeqRange(q) == {q[i] : i \in 1..Len(q)}

ProfileAnswered ==
    req.pc = "done" /\ req.stage.fn = "none" /\ req.status = OK

\* C7: the permissions computed for a user hold each permission exactly once
\* and are exactly the union of the permissions of the user's roles and the
\* user's direct permissions, in whatever order the store returns the rows.
C7_EffectivePermissionsDeduplicated ==
    ProfileAnswered =>
        LET ps == req.body.permissions
        IN /\ \A i, j \in 1..Len(ps) : ps[i].id = ps[j].id => i = j
           /\ SeqRange(ps) = EffectivePermissionRows(req.jwtPayload.sub)

\* A permission granted by two roles and directly appears once.
C7_Witness ==
    /\ ProfileAnswered
    /\ \E p \in PermRows :
         /\ <<"u1", p>> \in db.user_permissions
         /\ \A r \in RoleRows : r \in RolesOf("u1") /\ <<r.id, p>> \in db.role_permissions
         /\ Cardinality({i \in 1..Len(req.body.permissions) : req.body.permissions[i] = p}) = 1

\* C8: for an authenticated subject that exists, requirePermission(name)
\* calls next iff name is in the subject's effective permission set;
\* otherwise it answers 403 and next is not called.
C8_RequirePermissionIff ==
    (StageDecided /\ req.stage.fn = "requirePermission") =>
        LET granted == \E p \in EffectivePermissionRows(req.jwtPayload.sub) :
                           p.name = req.stage.names[1]
        IN /\ NextCalledByStage <=> granted
           /\ ~granted => (req.pc = "done" /\ req.status = FORBIDDEN)

\* next was called for a permission the user holds only directly.
C8_Witness ==
    /\ StageDecided /\ req.stage.fn = "requirePermission"
    /\ "handler" \in req.invoked
    /\ db.user_roles = {}
    /\ \E p \in PermRows : p.name = req.stage.names[1] /\ <<"u1", p>> \in db.user_permissions

\* C9: for an authenticated subject that exists, requireAllRoles([]) and
\* requireAllPermissions([]) call next, and requireAnyRole([]) and
\* requireAnyPermission([]) answer 403, whatever the subject holds.
C9_EmptyLists ==
    (StageDecided /\ req.stage.names = <<>>) =>
        /\ req.stage.fn \in {"requireAllRoles", "requireAllPermissions"}
              => NextCalledByStage
        /\ req.stage.fn \in {"requireAnyRole", "requireAnyPermission"}
              => (req.pc = "done" /\ req.status = FORBIDDEN /\ "handler" \notin req.invoked)

\* requireAllRoles([]) let a user with no role through.
C9_Witness ==
    /\ StageDecided /\ req.stage.names = <<>> /\ req.stage.fn = "requireAllRoles"
    /\ db.user_roles = {}
    /\ "handler" \in req.invoked

\* Verified claims reached a require* stage, the lookup answered, and the
\* subject is not in the store.
StaleSubjectAtStage ==
    /\ req.stage.fn # "none"
    /\ "stage" \in req.invoked
    /\ ~req.jwtPayload.isNull
    /\ ~req.dbErr
    /\ req.jwtPayload.sub \notin db.users

\* C10 as stated: a stale token of a deleted account is rejected by the
\* stage with status 403 and next is not called.
C10_StaleSubjectForbidden ==
    StaleSubjectAtStage =>
        (req.pc = "done" /\ req.status = FORBIDDEN /\ "handler" \notin req.invoked)

\* C10 amended: it is rejected with status 404 and next is not called.
C10_StaleSubjectNotFound ==
    StaleSubjectAtStage =>
        (req.pc = "done" /\ req.status = NOT_FOUND /\ "handler" \notin req.invoked)

C10_Witness ==
    /\ StaleSubjectAtStage
    /\ req.stage.fn = "requireAllPermissions" /\ req.stage.names = <<>>
    /\ req.status = NOT_FOUND

\* ---------------------------------------------------------- refresh: claims
\* A token as generateAccessToken makes it: signed with JWT_SECRET, no
\* type = "refresh" claim; expired or not.
IsAccessToken(t) == t.form = "jwt" /\ t.key = env.JWT_SECRET /\ t.type # "refresh"

\* C12: refresh issues an access token only for a token that verifies under
\* REFRESH_TOKEN_SECRET, is unexpired and carries type = "refresh"; an access
\* token presented as a refresh token is answered 401, expired or not.
C12_RefreshOnlyForRefreshTokens ==
    /\ rf.issued =>
          /\ rf.token.form = "jwt"
          /\ rf.token.key = env.REFRESH_TOKEN_SECRET
          /\ rf.token.type = "refresh"
          /\ rf.token.exp > rf.at
          /\ rf.decode.sub = rf.token.sub
          /\ rf.access_token = AccessTokenOf(rf.token.sub)
    /\ (rf.pc \in {"sign", "done"} /\ IsAccessToken(rf.token))
          => (rf.pc = "done" /\ rf.status = UNAUTHORIZED /\ ~rf.issued)

\* With both secrets set to the same value, an unexpired access token was
\* presented and refused.
C12_Witness ==
    /\ env.JWT_SECRET = env.REFRESH_TOKEN_SECRET
    /\ rf.pc = "done" /\ rf.status = UNAUTHORIZED
    /\ IsAccessToken(rf.token)
    /\ ~VerifyThrows(rf.token, env.REFRESH_TOKEN_SECRET)

\* ------------------------------------------------- administration: claims
\* The check of the request's stage rests only on assignments of the
\* subject that were revoked and not made again since.
DependsOnlyOnRevoked ==
    LET u == req.jwtPayload.sub
        n == req.stage.names[1]
    IN CASE req.stage.fn = "requireRole" ->
               \E r \in db.roles : r.name = n /\ <<u, r.id>> \in hist.revoked
         [] req.stage.fn = "requirePermission" ->
               /\ n \notin DirectPermissionNames(u)
               /\ \E r \in db.roles, p \in PermRows :
                     p.name = n /\ <<r.id, p>> \in db.role_permissions
               /\ \A r \in db.roles, p \in PermRows :
                     (p.name = n /\ <<r.id, p>> \in db.role_permissions)
                         => <<u, r.id>> \in hist.revoked
         [] OTHER -> FALSE

\* C11: a requireRole / requirePermission check made after
\* removeRoleFromUser has completed is decided on the stored state without
\* the assignment: when it rested only on the revoked role, it is answered
\* 403 and next is not called.
C11_RevocationVisible ==
    [][(/\ req.pc = "stage"
        /\ req'.pc # "stage"
        /\ ~req.jwtPayload.isNull
        /\ ~req'.dbErr
        /\ DependsOnlyOnRevoked)
          => (req'.pc = "done" /\ req'.status = FORBIDDEN)]_vars

\* The only administration call so far removed the role the check asked
\* for, and the check answered 403.
C11_Witness ==
    /\ hist.ops = 1
    /\ req.pc = "done" /\ req.status = FORBIDDEN /\ "handler" \notin req.invoked
    /\ req.stage.fn = "requireRole"
    /\ DependsOnlyOnRevoked

RoleOp(a) == admin[a].op \in {"create", "update"} /\ admin[a].pc = "done"

\* C19: no two stored roles share a name, and a create or rename that fails
\* because the name is held by another role fails with Conflict.
C19_RoleNamesUnique ==
    /\ \A r1, r2 \in db.roles : r1.name = r2.name => r1 = r2
    /\ \A a \in AdminProcs :
         (RoleOp(a) /\ admin[a].status \notin {OK, NOT_FOUND})
             => admin[a].status = CONFLICT

\* C20: a user holds at most one assignment of any given role.
C20_AtMostOneAssignment ==
    \A u \in Subjects, role \in AdminRoleIds :
        Cardinality(AssignmentRows(u, role)) <= 1

\* ------------------------------------------------ limiter and chain: claims
\* C13: the rate-limit stage runs before the route's stages: authMiddleware,
\* the require* stage and the handler run only for a request the limiter
\* has called next for, and never for one it answered 429.
C13_LimiterFirst ==
    /\ hist.served \subseteq adm
    /\ req.pc # "idle" => hist.cur \in adm
    /\ \A p \in Procs :
         proc[p].status = TOO_MANY_REQUESTS =>
             /\ proc[p].rid \notin hist.served
             /\ ~(req.pc # "idle" /\ hist.cur = proc[p].rid)

\* One request was answered 429 and ran nothing, another reached its handler.
C13_Witness ==
    /\ \E p \in Procs : proc[p].pc = "done" /\ proc[p].status = TOO_MANY_REQUESTS
    /\ req.pc = "done" /\ "handler" \in req.invoked

\* C14: every response of a request that went through the rate-limit check
\* carries the three X-RateLimit headers, also when it was admitted because
\* the store failed; Retry-After is present iff the limiter denied it.
C14_HeadersAlways ==
    \A p \in Procs :
        (proc[p].pc = "done" /\ ~proc[p].threw) =>
            /\ proc[p].hdr
            /\ proc[p].retrySet <=> proc[p].status = TOO_MANY_REQUESTS

\* C15: behind authMiddleware, rateLimiterByUser keys the bucket by the
\* verified subject: same account, same bucket, whatever the address;
\* different accounts, different buckets, even on one address.
C15_KeyedBySubject ==
    \A e1, e2 \in hist.keys :
        (e1.verified /\ e2.verified) => (e1.sub = e2.sub <=> e1.key = e2.key)

\* C16: the handler of a permissions endpoint runs only for a request that
\* carries a bearer access token that passed verification.
C16_PermissionsNeedAuth ==
    (req.stage.fn = "permissions" /\ "handler" \in req.invoked) =>
        (req.auth.kind = "bearer" /\ ~VerifyThrows(req.auth.token, env.JWT_SECRET))

\* C17: when the lookup of the subject errors inside a require* stage, next
\* is not called: the request ends without its handler having run.
C17_StageFailsClosed ==
    (req.stage.fn \in RequireFns /\ req.dbErr) =>
        /\ req.pc = "done"
        /\ "handler" \notin req.invoked
        /\ req.status = INTERNAL_SERVER_ERROR

\* The lookup failed for a subject the stage would have let through.
C17_Witness ==
    /\ req.stage.fn \in RequireFns /\ req.dbErr /\ req.pc = "done"
    /\ "stage" \in req.invoked
    /\ req.jwtPayload.sub \in db.users
    /\ StageAllows(req.stage, req.jwtPayload.sub)

\* C18: with the store answering, every request the limiter admitted has
\* exactly one entry under the key, and the entry stays counted until its
\* window has passed.
C18_AdmittedEntryStays ==
    faults = 0 =>
        \A rid \in adm :
            clock < arr[rid] + WindowMs =>
                Cardinality({e \in LiveSet(zset, ttl, clock) : e.id = rid}) = 1

\* ---------------------------------------------------------------- C21
\* The identity the claim names: the first x-forwarded-for address if the
\* header carries a value, else x-real-ip if it carries one, else "unknown".
ClaimedIdentity(h) ==
    IF h.forwarded.present /\ h.forwarded.parts # <<Piece("", FALSE)>>
    THEN Head(h.forwarded.parts).text
    ELSE IF h.realIp.present /\ h.realIp.value # "" THEN h.realIp.value
    ELSE "unknown"

ClaimedKey(r) == <<"rate-limit", ClaimedIdentity(via[r])>>

\* The other requests that came with the identity of request r.
SameIdentity(r) == {o \in 1..Len(via) : o # r /\ ClaimedKey(o) = ClaimedKey(r)}

\* C21: under the default key generator a request is counted against the
\* one bucket "rate-limit:" + identity (requests with neither header share
\* "rate-limit:unknown"), and requests whose keys differ never change each
\* other's count or decision: every recorded entry lies in the bucket of
\* the request that inserted it, a count never exceeds the number of other
\* requests with the same identity, and a denial needs max of them.
C21_OneBucketPerIdentity ==
    /\ \A p \in Procs : proc[p].rid # 0 /\ ~proc[p].threw =>
          /\ proc[p].key = ClaimedKey(proc[p].rid)
          /\ via[proc[p].rid] = NoHeaders => proc[p].key = <<"rate-limit", "unknown">>
          /\ proc[p].hdr => proc[p].cnt <= Cardinality(SameIdentity(proc[p].rid))
          /\ proc[p].status = TOO_MANY_REQUESTS =>
                Cardinality(SameIdentity(proc[p].rid)) >= max
    /\ \A key \in Keys : \A e \in Bucket(key).z : ClaimedKey(e.id) = key

\* Two callers with the identity "a" (one by x-real-ip, one by
\* x-forwarded-for) exhaust its bucket and the second is denied, while a
\* caller without headers, arriving at the same instant, is admitted.
C21_Witness ==
    /\ Len(via) = 3
    /\ max = 1
    /\ via[1] # via[2]
    /\ ClaimedIdentity(via[1]) = "a" /\ ClaimedIdentity(via[2]) = "a"
    /\ via[3] = NoHeaders
    /\ arr[2] = arr[3]
    /\ 1 \in adm /\ 2 \notin adm
    /\ \E p \in Procs :
         proc[p].rid = 3 /\ proc[p].pc = "done" /\ proc[p].next /\ proc[p].cnt = 0

\* ---------------------------------------------------------------- C22
\* What a client of the store sees under a key at the current time.
LiveEntries(key) == LiveSet(Bucket(key).z, Bucket(key).t, clock)

LiveExpiry(key) ==
    LiveTtl(LiveEntries(key), Bucket(key).t, clock)

\* C22: a denied request is not recorded. The step in which the limiter
\* denies inserts no entry for the key and does not refresh the key's
\* expiry: the recorded entries after the denial are those its prune left.
C22_DenialRecordsNothing ==
    [][\A p \in Procs :
          (proc[p].pc = "count" /\ proc'[p].status = TOO_MANY_REQUESTS) =>
              /\ LiveEntries(proc[p].key)' = LiveEntries(proc[p].key)
              /\ LiveExpiry(proc[p].key)' = LiveExpiry(proc[p].key)
              /\ \A e \in Bucket(proc[p].key).z' : e.id # proc[p].rid]_vars

\* A request was denied on a key that holds entries and an expiry.
C22_Witness ==
    \E p \in Procs :
        /\ proc[p].pc = "done" /\ proc[p].status = TOO_MANY_REQUESTS
        /\ max >= 1
        /\ proc[p].cnt >= max
        /\ LiveEntries(proc[p].key) # {}
        /\ LiveExpiry(proc[p].key).set
        /\ proc[p].rid \notin {e.id : e \in LiveEntries(proc[p].key)}

\* ---------------------------------------------------------------- C23
\* Task p prunes in this step.
Prunes(p) == proc[p].pc = "prune" /\ proc'[p].pc = "count"

\* C23 as stated: a prune removes exactly the entries with a timestamp
\* strictly less than windowStart; an entry whose timestamp equals
\* windowStart is kept and no entry >= windowStart is removed by pruning.
C23_PruneKeepsWindowStart ==
    [][\A p \in Procs : Prunes(p) =>
          LiveEntries(proc[p].key)' =
              {e \in LiveEntries(proc[p].key) : e.score >= WindowStart(proc[p].now)}]_vars

\* C23 amended: a prune removes exactly the entries with a timestamp less
\* than or equal to windowStart; an entry whose timestamp equals windowStart
\* is removed and no entry > windowStart is removed by pruning.
C23_PruneRemovesWindowStart ==
    [][\A p \in Procs : Prunes(p) =>
          LiveEntries(proc[p].key)' =
              {e \in LiveEntries(proc[p].key) : e.score > WindowStart(proc[p].now)}]_vars

\* The second request arrives exactly one window after the first, whose
\* entry the key's expiry (not before arrival + window) has not yet taken:
\* the prune has run and the entry is gone.
C23_Witness ==
    /\ Len(arr) = 2
    /\ faults = 0
    /\ 1 \in adm
    /\ \E p \in Procs :
         /\ proc[p].rid = 2 /\ proc[p].pc = "count"
         /\ clock = proc[p].now
         /\ arr[1] = WindowStart(proc[p].now)
         /\ LiveEntries(proc[p].key) = {}

\* ---------------------------------------------------------------- C24
\* C24: on every response the limiter set headers on, X-RateLimit-Limit is
\* max and X-RateLimit-Remaining is max(0, max - count - 1): never
\* negative and 0 on a denial; for requests run one at a time it goes down
\* by one with each admitted request of the window, from max - 1 to 0.
\* Stated for the most favourable case: no store command has ever errored
\* and the request is served within the instant it arrived in.
C24_RemainingCountsDown ==
    \A p \in Procs :
        (Done(p) /\ proc[p].hdr /\ k = 1 /\ faults = 0 /\ clock = proc[p].now) =>
            /\ proc[p].limit = max
            /\ proc[p].remaining >= 0
            /\ proc[p].status = TOO_MANY_REQUESTS => proc[p].remaining = 0
            /\ proc[p].next =>
                  /\ proc[p].remaining = max - PriorAdmittedInWindow(p) - 1
                  /\ proc[p].remaining \in 0..(max - 1)

\* ---------------------------------------------------------------- C25
\* C25: a request with no Authorization header, or one that does not start
\* with "Bearer ", is rejected by authMiddleware with 401, without calling
\* the verifier and without calling next.
C25_NoBearerRejected ==
    ("auth" \in req.invoked /\ req.auth.kind \in {"absent", "other"}) =>
        /\ req.pc = "done"
        /\ req.status = UNAUTHORIZED
        /\ ~req.verifyCalled
        /\ ~req.payloadSet
        /\ req.invoked = {"auth"}

\* authMiddleware has answered a request whose Authorization header is
\* present but is not a bearer credential.
C25_Witness ==
    /\ "auth" \in req.invoked
    /\ req.auth.kind = "other"
    /\ req.stage.fn = "requireRole"
    /\ req.status = UNAUTHORIZED

\* ---------------------------------------------------------------- C26
\* The requests whose entry was inserted: with no store error ever, those
\* that went on to next() and those between their zAdd and their expire.
Recorded ==
    adm \cup {proc[p].rid : p \in {q \in Procs : proc[q].pc = "expire"}}

\* The entries recorded inside the window that ends with request p.
RecordedInWindow(p) ==
    {r \in Recorded : proc[p].now - WindowMs < arr[r] /\ arr[r] <= proc[p].now}

\* C26: over-admission is bounded. With at most k requests for the key in
\* flight at once and the store reachable, the entries recorded for the key
\* inside any one window never exceed max + k - 1. Stated for the most
\* favourable case: the window that ends with a request whose own entry is
\* recorded and which is served within the instant it arrived in.
C26_OverAdmissionBounded ==
    \A p \in Procs :
        (faults = 0 /\ proc[p].rid \in Recorded /\ clock = proc[p].now) =>
            Cardinality(RecordedInWindow(p)) <= max + k - 1

\* ---------------------------------------------------------------- C27
\* C27: the expiry of the whole key only discards entries that are already
\* outside the window. When a key's expiry has fired, every entry it took
\* is at least windowInSeconds old.
C27_ExpiryTakesOnlyOldEntries ==
    \A key \in Keys :
        KeyExpired(Bucket(key).t, clock) =>
            \A e \in Bucket(key).z : e.score + WindowMs <= clock

\* ---------------------------------------------------------------- C28
\* The other requests with an entry recorded inside the trailing window of
\* request p.
OthersRecordedInWindow(p) ==
    {r \in Recorded \ {proc[p].rid} : arr[r] > proc[p].now - WindowMs}

\* C28 as stated: denied attempts never prolong a block. While the store is
\* reachable a request is never denied when fewer than max admitted
\* requests lie inside its trailing window. Stated for the most favourable
\* case: the request is served within the instant it arrived in, and a
\* request whose entry is recorded counts as admitted.
C28_DeniedOnlyAtQuota ==
    \A p \in Procs :
        (Done(p) /\ faults = 0 /\ clock = proc[p].now
                 /\ proc[p].status = TOO_MANY_REQUESTS) =>
            Cardinality(OthersRecordedInWindow(p)) >= max

\* C28 amended: for requests of a key served one at a time, however slowly,
\* a request is never denied when fewer than max requests admitted before
\* it lie inside its trailing window.
C28_DeniedOnlyAtQuotaOneAtATime ==
    \A p \in Procs :
        (Done(p) /\ k = 1 /\ faults = 0 /\ proc[p].status = TOO_MANY_REQUESTS) =>
            PriorAdmittedInWindow(p) >= max

\* The key reached max = 1 at t = 0; a request inside the window was
\* denied; the request arriving once the entry is windowInSeconds old is
\* admitted with the full quota.
C28_Witness ==
    /\ k = 1 /\ max = 1 /\ faults = 0
    /\ Len(arr) = 3
    /\ 1 \in adm /\ 2 \notin adm
    /\ arr[2] < arr[1] + WindowMs
    /\ arr[3] = arr[1] + WindowMs
    /\ \E p \in Procs :
         proc[p].rid = 3 /\ Done(p) /\ proc[p].next /\ proc[p].remaining = 0
            /\ proc[p].cnt = 0

\* ---------------------------------------------------------------- C29
\* C29: access and refresh tokens are never interchangeable, whatever the
\* two secrets are (equal ones included): authMiddleware hands no claims of
\* a token made by generateRefreshToken to the next stage, and refresh
\* issues nothing for a token made by generateAccessToken.
C29_TokensNotInterchangeable ==
    /\ (req.auth.kind = "bearer" /\ req.auth.token.type = "refresh" /\ req.payloadSet)
          => req.jwtPayload.isNull
    /\ (req.auth.kind = "bearer" /\ req.auth.token.type = "refresh" /\ req.pc = "done")
          => req.status # OK
    /\ (rf.pc \in {"sign", "done"} /\ rf.token.type = "access")
          => (rf.pc = "done" /\ rf.status = UNAUTHORIZED /\ ~rf.issued)

\* ---------------------------------------------------------------- C30
\* C30: getRedis returns a client only between a successful initRedis (the
\* connect has completed) and the next closeRedis, and throws otherwise:
\* whenever a request's getRedis call returns, the client is connected.
C30_GetRedisOnlyWhileConnected ==
    [][\A p \in Procs :
          (~InFlight(p) /\ proc'[p].pc = "prune") => redisClient = "ready"]_vars
====
